---------------------------- MODULE Spec2Model ----------------------------
(***************************************************************************)
(* Model of the oxynth synthesizer:                                        *)
(*   - the polyphonic engine Synth::process (src/src/synth.rs): the drain  *)
(*     of the MIDI queue, voice allocation and stealing, the per-sample    *)
(*     ADSR envelope state machine;                                        *)
(*   - the single-producer/single-consumer MIDI queue between the USB      *)
(*     input task (src/src/usb_midi_in.rs) and the engine;                 *)
(*   - the double-buffered DMA loop of src/src/bin/main.rs.                *)
(*                                                                         *)
(* f32 values are modelled as exact rationals <<numerator, denominator>>   *)
(* in lowest terms: rounding is not modelled.                              *)
(***************************************************************************)
EXTENDS Integers, Sequences, FiniteSets, TLC

(***************************************************************************)
(* Bounds of the model.                                                    *)
(***************************************************************************)
\* Number of voices of the modelled pool (the source builds 10).
MaxVoices == 2
\* Samples per second of the modelled engine (the source runs at 48000).
ModelRate == 10
\* Frames of the buffer handed to one Synth::process call.
BufLen == 3
\* Calls of Synth::process in one behaviour.
MaxCalls == 3
\* MIDI packets the input task receives in one behaviour.
MaxEvents == 3
\* Packets of the burst the queue is checked under.
MaxBurst == 33
\* Words of one slot of the double buffer (the source has 960).
PingSize == 4
\* Iterations of the double-buffered loop in one behaviour.
MaxLoops == 6

(***************************************************************************)
(* Program constants.                                                      *)
(***************************************************************************)
MIDI_QUEUE_SIZE == 32
N_VOICES == MaxVoices
SAMPLE_RATE == ModelRate
\* Voice::active's threshold 1e-6, as the denominator of 1/1000000.
ACTIVE_EPS_DEN == 1000000
\* const MAX_AMPLITUDE: i16 = 12000
MAX_AMPLITUDE == 12000
\* i16::MAX and i16::MIN
I16_MAX == 32767
I16_MIN == -32768

(***************************************************************************)
(* Rational arithmetic standing for f32.                                   *)
(***************************************************************************)
Abs(x) == IF x < 0 THEN -x ELSE x

RECURSIVE GCD(_, _)
GCD(a, b) == IF b = 0 THEN a ELSE GCD(b, a % b)

\* n/d in lowest terms, d > 0.
Rat(n, d) ==
    LET g == GCD(Abs(n), d)
    IN  IF n = 0 THEN <<0, 1>> ELSE <<n \div g, d \div g>>

R0 == <<0, 1>>
R1 == <<1, 1>>
RInt(n) == <<n, 1>>

RAdd(a, b) ==
    LET g == GCD(a[2], b[2])
    IN  Rat(a[1] * (b[2] \div g) + b[1] * (a[2] \div g), (a[2] \div g) * b[2])
RNeg(a) == <<-a[1], a[2]>>
RSub(a, b) == RAdd(a, RNeg(b))
RMul(a, b) ==
    LET g1 == GCD(Abs(a[1]), b[2])
        g2 == GCD(Abs(b[1]), a[2])
    IN  IF a[1] = 0 \/ b[1] = 0 THEN R0
        ELSE <<(a[1] \div g1) * (b[1] \div g2), (a[2] \div g2) * (b[2] \div g1)>>
\* a / b for b > 0.
RDiv(a, b) == RMul(a, <<b[2], b[1]>>)
RLe(a, b) ==
    LET g == GCD(a[2], b[2])
    IN  a[1] * (b[2] \div g) <= b[1] * (a[2] \div g)
RLt(a, b) == ~RLe(b, a)
RGe(a, b) == RLe(b, a)
RGt(a, b) == RLt(b, a)
RMax(a, b) == IF RLe(a, b) THEN b ELSE a
RMin(a, b) == IF RLe(a, b) THEN a ELSE b
\* The whole part of a >= 0, and what is left of it.
RFloor(a) == a[1] \div a[2]
RFrac(a) == RSub(a, RInt(RFloor(a)))

(***************************************************************************)
(* u32 values (age, age_counter) as <<high half, low half>> of 16 bits     *)
(* each, so that wrapping_add keeps its width.                             *)
(***************************************************************************)
HALF == 65536
U32Zero == <<0, 0>>
U32Max == <<HALF - 1, HALF - 1>>
\* Mutant of wrapping_add_1: the counter saturates (u32::saturating_add(1)).
saturating_add_1(a) ==
    IF a = <<HALF - 1, HALF - 1>> THEN a
    ELSE IF a[2] = HALF - 1 THEN <<a[1] + 1, 0>> ELSE <<a[1], a[2] + 1>>

\* u32::wrapping_add(1)
wrapping_add_1(a) ==
    IF a[2] = HALF - 1 THEN <<(a[1] + 1) % HALF, 0>> ELSE <<a[1], a[2] + 1>>
\* a.cmp(&b) is Less
U32Lt(a, b) == a[1] < b[1] \/ (a[1] = b[1] /\ a[2] < b[2])
U32Le(a, b) == a = b \/ U32Lt(a, b)

(***************************************************************************)
(* MIDI events.                                                            *)
(***************************************************************************)
NOTE_OFF == 128
NOTE_ON == 144
CONTROL_CHANGE == 176

MidiEvent(status, data1, data2) ==
    [status |-> status, data1 |-> data1, data2 |-> data2]

\* status & 0xF0
StatusNybble(status) == status - (status % 16)

\* 440 * 2^((note - 69) / 12), exact for the notes a whole number of octaves
\* from A4, which are the notes the model plays.
RECURSIVE Pow2(_)
Pow2(k) == IF k = 0 THEN 1 ELSE 2 * Pow2(k - 1)
midi_note_to_freq(note) ==
    LET k == (note - 69) \div 12
    IN  IF k >= 0 THEN RInt(440 * Pow2(k)) ELSE Rat(440, Pow2(-k))

(***************************************************************************)
(* Voice (src/src/synth.rs).                                               *)
(***************************************************************************)
VoiceNew ==
    [note |-> 0, freq |-> R0, target_amp |-> R0, env |-> R0, gate |-> FALSE,
     phase |-> R0, age |-> U32Zero, stage |-> "Idle", attack_inc |-> R0,
     decay_inc |-> R0, sustain_level |-> R1, release_inc |-> R0,
     filter_buf0 |-> R0, filter_buf1 |-> R0]

\* max(1.0, seconds * SAMPLE_RATE)
RampSamples(seconds) == RMax(RMul(seconds, RInt(SAMPLE_RATE)), R1)

\* Mutant of start_with_adsr: the voice starts from silence, its level and
\* its phase reset.
start_from_silence(v, note, freq, vel_amp, age, attack_s, decay_s, sustain_level) ==
    LET attack_samples == RampSamples(attack_s)
        decay_samples == RampSamples(decay_s)
        sustain_target == RMul(sustain_level, vel_amp)
    IN  [v EXCEPT
            !.note = note,
            !.freq = freq,
            !.target_amp = vel_amp,
            !.gate = TRUE,
            !.age = age,
            !.sustain_level = sustain_level,
            !.attack_inc = RDiv(vel_amp, attack_samples),
            !.decay_inc = RDiv(RSub(vel_amp, sustain_target), decay_samples),
            !.release_inc = R0,
            !.stage = "Attack",
            !.env = R0,
            !.phase = R0]

\* Mutant of start_with_adsr: the ramps are those of the default times.
start_with_default_adsr(v, note, freq, vel_amp, age, attack_s, decay_s, sustain_level) ==
    LET attack_samples == RampSamples(Rat(5, 1000))
        decay_samples == RampSamples(Rat(50, 1000))
        sustain_target == RMul(sustain_level, vel_amp)
    IN  [v EXCEPT
            !.note = note,
            !.freq = freq,
            !.target_amp = vel_amp,
            !.gate = TRUE,
            !.age = age,
            !.sustain_level = sustain_level,
            !.attack_inc = RDiv(vel_amp, attack_samples),
            !.decay_inc = RDiv(RSub(vel_amp, sustain_target), decay_samples),
            !.release_inc = R0,
            !.stage = "Attack",
            !.env = IF RLe(v.env, R0) THEN R0 ELSE v.env]

start_with_adsr(v, note, freq, vel_amp, age, attack_s, decay_s, sustain_level) ==
    LET attack_samples == RampSamples(attack_s)
        decay_samples == RampSamples(decay_s)
        sustain_target == RMul(sustain_level, vel_amp)
    IN  [v EXCEPT
            !.note = note,
            !.freq = freq,
            !.target_amp = vel_amp,
            !.gate = TRUE,
            !.age = age,
            !.sustain_level = sustain_level,
            !.attack_inc = IF RGt(attack_samples, R0)
                           THEN RDiv(vel_amp, attack_samples) ELSE vel_amp,
            !.decay_inc = IF RGt(decay_samples, R0)
                          THEN RDiv(RSub(vel_amp, sustain_target), decay_samples)
                          ELSE RSub(vel_amp, sustain_target),
            !.release_inc = R0,
            !.stage = "Attack",
            !.env = IF RLe(v.env, R0) THEN R0 ELSE v.env]

\* Mutant of note_off: the release ramp is taken from the peak level
\* target_amp, not from the current level.
note_off_from_peak(v, release_s) ==
    LET release_samples == RampSamples(release_s)
    IN  [v EXCEPT
            !.gate = FALSE,
            !.release_inc = IF RGt(release_samples, R0)
                            THEN RDiv(v.target_amp, release_samples)
                            ELSE v.target_amp,
            !.stage = "Release"]

\* Mutant of note_off: the release starts from silence.
note_off_silenced(v, release_s) ==
    [v EXCEPT
        !.gate = FALSE,
        !.env = R0,
        !.release_inc = R0,
        !.stage = "Release"]

\* Mutant of note_off: the gate is left as it is.
note_off_gate_kept(v, release_s) ==
    LET release_samples == RampSamples(release_s)
    IN  [v EXCEPT
            !.release_inc = IF RGt(release_samples, R0)
                            THEN RDiv(v.env, release_samples) ELSE v.env,
            !.stage = "Release"]

note_off(v, release_s) ==
    LET release_samples == RampSamples(release_s)
    IN  [v EXCEPT
            !.gate = FALSE,
            !.release_inc = IF RGt(release_samples, R0)
                            THEN RDiv(v.env, release_samples) ELSE v.env,
            !.stage = "Release"]

\* Mutant of active: the stage is not looked at.
active_by_level(v) == RGt(v.env, Rat(1, ACTIVE_EPS_DEN))

active(v) == v.stage # "Idle" \/ RGt(v.env, Rat(1, ACTIVE_EPS_DEN))

(***************************************************************************)
(* Synth (src/src/synth.rs).  Voices are indexed from 0 as in the source.   *)
(***************************************************************************)
VoiceIdx == 0 .. (N_VOICES - 1)

SynthNew ==
    [voices |-> [i \in VoiceIdx |-> VoiceNew],
     age_counter |-> U32Zero,
     waveform |-> "Sine",
     attack_time_s |-> Rat(5, 1000),
     decay_time_s |-> Rat(50, 1000),
     sustain_level |-> Rat(2, 10),
     release_time_s |-> Rat(500, 1000),
     filter_cutoff |-> Rat(5, 10),
     filter_resonance |-> Rat(5, 10)]

\* cc_val as f32 / 127.0
CcFraction(cc_val) == Rat(cc_val, 127)

\* Mutant of WaveformOf: every region starts one value late.
WaveformOfLate(cc_val) ==
    IF cc_val <= 32 THEN "Sine"
    ELSE IF cc_val <= 64 THEN "Square"
    ELSE IF cc_val <= 96 THEN "Sawtooth"
    ELSE "Triangle"

\* match cc_val { 0..=31 => Sine, 32..=63 => Square, 64..=95 => Sawtooth,
\*                96..=127 => Triangle, _ => Sine }
WaveformOf(cc_val) ==
    IF cc_val <= 31 THEN "Sine"
    ELSE IF cc_val <= 63 THEN "Square"
    ELSE IF cc_val <= 95 THEN "Sawtooth"
    ELSE IF cc_val <= 127 THEN "Triangle"
    ELSE "Sine"

\* The 0xB0 arm of Synth::process.
ControlChange(s, cc_num, cc_val) ==
    CASE cc_num = 21 -> [s EXCEPT !.waveform = WaveformOf(cc_val)]
      [] cc_num = 22 ->
            [s EXCEPT !.attack_time_s =
                RAdd(Rat(1, 1000), RMul(CcFraction(cc_val), Rat(1999, 1000)))]
      [] cc_num = 23 ->
            [s EXCEPT !.decay_time_s =
                RAdd(Rat(1, 1000), RMul(CcFraction(cc_val), Rat(1999, 1000)))]
      [] cc_num = 24 -> [s EXCEPT !.sustain_level = CcFraction(cc_val)]
      [] cc_num = 25 ->
            [s EXCEPT !.release_time_s =
                RAdd(Rat(1, 1000), RMul(CcFraction(cc_val), Rat(2999, 1000)))]
      [] cc_num = 26 -> [s EXCEPT !.filter_cutoff = CcFraction(cc_val)]
      [] cc_num = 27 ->
            [s EXCEPT !.filter_resonance = RMul(CcFraction(cc_val), RInt(4))]
      [] OTHER -> s

\* self.voices.iter().position(|v| !v.active()): the first index, or -1 for None.
FreeVoice(voices) ==
    IF \E i \in VoiceIdx : ~active(voices[i])
    THEN CHOOSE i \in VoiceIdx :
            /\ ~active(voices[i])
            /\ \A j \in VoiceIdx : j < i => active(voices[j])
    ELSE -1

\* Mutant of OldestVoice: the voice of the greatest age (max_by).
NewestVoice(voices) ==
    CHOOSE i \in VoiceIdx :
        /\ \A j \in VoiceIdx : U32Le(voices[j].age, voices[i].age)
        /\ \A j \in VoiceIdx : j < i => voices[j].age # voices[i].age

\* self.voices.iter().enumerate().min_by(|a, b| a.1.age.cmp(&b.1.age)):
\* Iterator::min_by returns the first of several equally minimal elements.
OldestVoice(voices) ==
    CHOOSE i \in VoiceIdx :
        /\ \A j \in VoiceIdx : U32Le(voices[i].age, voices[j].age)
        /\ \A j \in VoiceIdx : j < i => voices[j].age # voices[i].age

\* The 0x90 arm with event.data2 > 0.
NoteOnVelocity(s, note, velocity) ==
    LET vel_amp == Rat(velocity, 127)
        freq == midi_note_to_freq(note)
        free == FreeVoice(s.voices)
        counter == wrapping_add_1(s.age_counter)
    IN  IF free # -1
        THEN [s EXCEPT
                !.age_counter = counter,
                !.voices[free] = start_with_adsr(s.voices[free], note, freq,
                                    vel_amp, counter, s.attack_time_s,
                                    s.decay_time_s, s.sustain_level)]
        ELSE LET idx == OldestVoice(s.voices)
             IN  [s EXCEPT
                    !.age_counter = counter,
                    !.voices[idx] = start_with_adsr(s.voices[idx], note, freq,
                                        vel_amp, counter, s.attack_time_s,
                                        s.decay_time_s, s.sustain_level)]

\* The 0x90 arm with event.data2 == 0: "velocity 0 -> note off".
NoteOnZeroVelocity(s, note) ==
    [s EXCEPT !.voices =
        [i \in VoiceIdx |->
            IF s.voices[i].note = note /\ s.voices[i].gate
            THEN note_off(s.voices[i], s.release_time_s)
            ELSE s.voices[i]]]

\* Mutant of ReleaseGuard: the gate is not looked at.
ReleaseGuardAnyGate(v, note) == v.note = note

\* if v.note == note && v.gate, of the 0x80 arm.
ReleaseGuard(v, note) == v.note = note /\ v.gate

\* The 0x80 arm.
NoteOffEvent(s, note) ==
    [s EXCEPT !.voices =
        [i \in VoiceIdx |->
            IF ReleaseGuard(s.voices[i], note)
            THEN note_off(s.voices[i], s.release_time_s)
            ELSE s.voices[i]]]

\* Mutant of HasVelocity: velocity 0 is not told apart.
HasVelocityAlways(event) == event.data2 >= 0

\* if event.data2 > 0
HasVelocity(event) == event.data2 > 0

\* Mutant of ApplyEvent: the arm of the other statuses releases the note.
ApplyEventOtherReleases(s, event) ==
    LET status_nybble == StatusNybble(event.status)
    IN  CASE status_nybble = CONTROL_CHANGE ->
                ControlChange(s, event.data1, event.data2)
          [] status_nybble = NOTE_ON ->
                IF HasVelocity(event)
                THEN NoteOnVelocity(s, event.data1, event.data2)
                ELSE NoteOnZeroVelocity(s, event.data1)
          [] OTHER -> NoteOffEvent(s, event.data1)

\* The body of the drain loop for one dequeued event.
ApplyEvent(s, event) ==
    LET status_nybble == StatusNybble(event.status)
    IN  CASE status_nybble = CONTROL_CHANGE ->
                ControlChange(s, event.data1, event.data2)
          [] status_nybble = NOTE_ON ->
                IF HasVelocity(event)
                THEN NoteOnVelocity(s, event.data1, event.data2)
                ELSE NoteOnZeroVelocity(s, event.data1)
          [] status_nybble = NOTE_OFF -> NoteOffEvent(s, event.data1)
          [] OTHER -> s

\* Mutant of EnvelopeStep: a release that ends leaves the level it had.
EnvelopeStepResidue(v) ==
    CASE v.stage = "Idle" -> v
      [] v.stage = "Attack" ->
            LET env == RAdd(v.env, v.attack_inc)
            IN  IF RGe(env, v.target_amp)
                THEN [v EXCEPT !.env = v.target_amp, !.stage = "Decay"]
                ELSE [v EXCEPT !.env = env]
      [] v.stage = "Decay" ->
            LET env == RSub(v.env, v.decay_inc)
                sustain_level == RMul(v.sustain_level, v.target_amp)
            IN  IF RLe(env, sustain_level)
                THEN [v EXCEPT !.env = sustain_level, !.stage = "Sustain"]
                ELSE [v EXCEPT !.env = env]
      [] v.stage = "Sustain" -> v
      [] v.stage = "Release" ->
            LET env == RSub(v.env, v.release_inc)
            IN  IF RLe(env, R0)
                THEN [v EXCEPT !.stage = "Idle", !.gate = FALSE]
                ELSE [v EXCEPT !.env = env]

\* Mutant of EnvelopeStep: the level goes on decaying in Sustain.
EnvelopeStepSustainDecays(v) ==
    CASE v.stage = "Idle" -> v
      [] v.stage = "Attack" ->
            LET env == RAdd(v.env, v.attack_inc)
            IN  IF RGe(env, v.target_amp)
                THEN [v EXCEPT !.env = v.target_amp, !.stage = "Decay"]
                ELSE [v EXCEPT !.env = env]
      [] v.stage = "Decay" ->
            LET env == RSub(v.env, v.decay_inc)
                sustain_level == RMul(v.sustain_level, v.target_amp)
            IN  IF RLe(env, sustain_level)
                THEN [v EXCEPT !.env = sustain_level, !.stage = "Sustain"]
                ELSE [v EXCEPT !.env = env]
      [] v.stage = "Sustain" ->
            [v EXCEPT !.env = RMax(RSub(v.env, v.decay_inc), R0)]
      [] v.stage = "Release" ->
            LET env == RSub(v.env, v.release_inc)
            IN  IF RLe(env, R0)
                THEN [v EXCEPT !.env = R0, !.stage = "Idle", !.gate = FALSE]
                ELSE [v EXCEPT !.env = env]

\* Mutant of EnvelopeStep: Release ends only below 0 (env < 0.0).
EnvelopeStepBelowZero(v) ==
    CASE v.stage = "Idle" -> v
      [] v.stage = "Attack" ->
            LET env == RAdd(v.env, v.attack_inc)
            IN  IF RGe(env, v.target_amp)
                THEN [v EXCEPT !.env = v.target_amp, !.stage = "Decay"]
                ELSE [v EXCEPT !.env = env]
      [] v.stage = "Decay" ->
            LET env == RSub(v.env, v.decay_inc)
                sustain_level == RMul(v.sustain_level, v.target_amp)
            IN  IF RLe(env, sustain_level)
                THEN [v EXCEPT !.env = sustain_level, !.stage = "Sustain"]
                ELSE [v EXCEPT !.env = env]
      [] v.stage = "Sustain" -> v
      [] v.stage = "Release" ->
            LET env == RSub(v.env, v.release_inc)
            IN  IF RLt(env, R0)
                THEN [v EXCEPT !.env = R0, !.stage = "Idle", !.gate = FALSE]
                ELSE [v EXCEPT !.env = env]

\* The envelope state machine, one sample of one voice.
EnvelopeStep(v) ==
    CASE v.stage = "Idle" -> v
      [] v.stage = "Attack" ->
            LET env == RAdd(v.env, v.attack_inc)
            IN  IF RGe(env, v.target_amp)
                THEN [v EXCEPT !.env = v.target_amp, !.stage = "Decay"]
                ELSE [v EXCEPT !.env = env]
      [] v.stage = "Decay" ->
            LET env == RSub(v.env, v.decay_inc)
                sustain_level == RMul(v.sustain_level, v.target_amp)
            IN  IF RLe(env, sustain_level)
                THEN [v EXCEPT !.env = sustain_level, !.stage = "Sustain"]
                ELSE [v EXCEPT !.env = env]
      [] v.stage = "Sustain" -> v
      [] v.stage = "Release" ->
            LET env == RSub(v.env, v.release_inc)
            IN  IF RLe(env, R0)
                THEN [v EXCEPT !.env = R0, !.stage = "Idle", !.gate = FALSE]
                ELSE [v EXCEPT !.env = env]

\* core::f32::consts::PI, by the rational 355/113.
PI == Rat(355, 113)

\* sin(2 * PI * phase) of micromath, which approximates the sine: here by
\* 16x(pi - x) / (5 pi^2 - 4x(pi - x)) on each half period, which is rational
\* in the phase and exact at 0, 1/12, 1/4, 5/12 and 1/2 of a period.
HalfSine(x) ==
    LET t == RMul(x, RSub(R1, RMul(RInt(2), x)))
    IN  RDiv(RMul(RInt(32), t), RSub(RInt(5), RMul(RInt(8), t)))
Sin2Pi(phase) ==
    LET x == RFrac(phase)
    IN  IF RLe(x, Rat(1, 2)) THEN HalfSine(x)
        ELSE RNeg(HalfSine(RSub(x, Rat(1, 2))))

\* match self.waveform { ... }: the oscillator's sample at a phase.
WaveSample(waveform, phase) ==
    CASE waveform = "Sine" -> Sin2Pi(phase)
      [] waveform = "Square" ->
            IF RLt(phase, Rat(1, 2)) THEN R1 ELSE RNeg(R1)
      [] waveform = "Sawtooth" -> RSub(RMul(RInt(2), phase), R1)
      [] waveform = "Triangle" ->
            IF RLt(phase, Rat(1, 2))
            THEN RSub(RMul(RInt(4), phase), R1)
            ELSE RSub(RInt(3), RMul(RInt(4), phase))

\* "advance phase": v.phase += phase_inc; if v.phase >= 1.0 { v.phase -= 1.0 }
AdvancePhase(v) ==
    LET phase_inc == IF RGt(v.freq, R0) THEN RDiv(v.freq, RInt(SAMPLE_RATE))
                     ELSE R0
        phase == RAdd(v.phase, phase_inc)
    IN  [v EXCEPT !.phase = IF RGe(phase, R1) THEN RSub(phase, R1) ELSE phase]

\* if v.env > 0.0 { ... }: the oscillator's sample through the two-pole
\* state-variable low-pass filter; the registers move only for a voice whose
\* level is above 0.
FilterStep(s, v) ==
    IF RGt(v.env, R0)
    THEN LET sample == WaveSample(s.waveform, v.phase)
             cutoff_freq == RMul(s.filter_cutoff, Rat(1, 2))
             f == RMin(RMul(cutoff_freq, PI), Rat(3, 2))
             q == RSub(R1, RMul(s.filter_resonance, Rat(24, 100)))
             q_clamped == RMax(q, Rat(5, 100))
             lowpass == RAdd(v.filter_buf1, RMul(f, v.filter_buf0))
             highpass == RSub(RSub(sample, lowpass),
                              RMul(q_clamped, v.filter_buf0))
             bandpass == RAdd(RMul(f, highpass), v.filter_buf0)
         IN  [v EXCEPT !.filter_buf0 = bandpass, !.filter_buf1 = lowpass]
    ELSE v

\* The body of "for v in self.voices.iter_mut()": one sample of one voice.
VoiceSample(s, v) == FilterStep(s, AdvancePhase(EnvelopeStep(v)))

\* mix += filtered * v.env, for a voice after its sample: filtered is the
\* low-pass output the step left in filter_buf1.
Contribution(v) ==
    IF RGt(v.env, R0) THEN RMul(v.filter_buf1, v.env) ELSE R0

\* One iteration of "for w in buf.iter_mut()": every voice advances one sample.
RenderSample(s) ==
    [s EXCEPT !.voices = [i \in VoiceIdx |-> VoiceSample(s, s.voices[i])]]

\* The mix of the voices after their sample.
RECURSIVE MixUpTo(_, _)
MixUpTo(voices, n) ==
    IF n = 0 THEN R0
    ELSE RAdd(MixUpTo(voices, n - 1), Contribution(voices[n - 1]))
Mix(s) == MixUpTo(s.voices, N_VOICES)

\* x as i16 for an f32 x: the fraction is dropped and the value saturates.
F32AsI16(x) ==
    LET t == IF x[1] >= 0 THEN x[1] \div x[2] ELSE -((-x[1]) \div x[2])
    IN  IF t > I16_MAX THEN I16_MAX ELSE IF t < I16_MIN THEN I16_MIN ELSE t

\* Mutant of I16AsU32: the magnitude is taken, the sign dropped.
I16AsU32Magnitude(x) == IF x < 0 THEN <<0, -x>> ELSE <<0, x>>

\* l as u32: the sign is extended over the upper half.
I16AsU32(x) == IF x < 0 THEN <<HALF - 1, x + HALF>> ELSE <<0, x>>
\* u as u16: the upper half is dropped.
U32AsU16(u) == u[2]
\* r as u16
I16AsU16(x) == IF x < 0 THEN x + HALF ELSE x
\* h as u32
U16AsU32(h) == <<0, h>>
\* u << 16: the upper half is shifted out.
Shl16(u) == <<u[2], 0>>
\* a | b for words none of whose halves are both non-zero.
U32Or(a, b) == <<a[1] + b[1], a[2] + b[2]>>

\* ((l as u32 as u16 as u32) << 16) | ((r as u16) as u32)
pack_lr_16(l, r) ==
    U32Or(Shl16(U16AsU32(U32AsU16(I16AsU32(l)))), U16AsU32(I16AsU16(r)))

\* The frame written for the voices after their sample:
\* mix / N_VOICES, (MAX_AMPLITUDE * mix_norm) as i16, pack_lr_16(sample, sample).
FrameSample(s) ==
    LET mix_norm == RDiv(Mix(s), RInt(N_VOICES))
    IN  F32AsI16(RMul(RInt(MAX_AMPLITUDE), mix_norm))
FrameWord(s) ==
    LET sample == FrameSample(s)
    IN  pack_lr_16(sample, sample)

(***************************************************************************)
(* The MIDI queue: heapless::spsc::Queue<MidiEvent, MIDI_QUEUE_SIZE>.       *)
(* The ring keeps one slot free to tell full from empty, so it holds at     *)
(* most MIDI_QUEUE_SIZE - 1 events.                                         *)
(***************************************************************************)
QueueCapacity == MIDI_QUEUE_SIZE - 1

\* prod.enqueue(event) succeeds
EnqueueOk(q) == Len(q) < QueueCapacity

\* let _ = prod.enqueue(event): the event is dropped when the queue is full.
Enqueue(q, event) == IF EnqueueOk(q) THEN Append(q, event) ELSE q

\* Mutant of DequeueSome: the loop stops with one event left in the queue.
DequeueSomeButLast(q) == Len(q) > 1

\* cons.dequeue() returns Some
DequeueSome(q) == q # <<>>

\* Mutant of Dequeued: the head index is not advanced.
DequeuedHeadKept(q) == q

\* The queue after cons.dequeue() returned Some(Head(q)).
Dequeued(q) == Tail(q)

\* match status_nybble { 0xB0 | 0x90 | 0x80 => enqueue, _ => ignored }
UsbForwards(status) ==
    StatusNybble(status) \in {CONTROL_CHANGE, NOTE_ON, NOTE_OFF}

(***************************************************************************)
(* State.                                                                  *)
(***************************************************************************)
VARIABLES
    synth,        \* the Synth: voices, age_counter and the parameters
    pc,           \* Synth::process: "idle" (not running), "drain", "frames"
    frame,        \* frames of buf written by the running call
    calls,        \* calls of Synth::process so far
    atStart,      \* history: the queue when the running call started
    synthAtStart, \* history: the synth when the running call started
    applied,      \* history: the events the running call has applied
    late,         \* history: the events enqueued since the drain loop ended
    released,     \* history: notes released with no note-on applied since
    word,         \* the frame last written to buf
    releases,     \* history: per voice, the release it is in or has finished
    strikes,      \* history: the note-ons counted, and each voice's last one
    queue,        \* the events in MIDI_QUEUE, oldest first
    received,     \* packets the input task has received so far
    accepted,     \* history: the events enqueue accepted, in order
    delivered,    \* history: the events dequeue returned, in order
    qop           \* history: the last operation on the queue

synthVars == <<synth, pc, frame, calls, atStart, synthAtStart, applied, late,
              released, word, releases, strikes>>
queueVars == <<queue, received, accepted, delivered, qop>>

\* The double-buffered loop of src/src/bin/main.rs.
VARIABLES
    back_buffer,  \* the slot back_buffer refers to
    front_buffer, \* the slot front_buffer refers to
    mem,          \* the words of the two slots, as <<left, right>> halves
    phase,        \* the 16-bit phase accumulator
    led_status,
    lpc,          \* the loop: "write", "fill", "await"
    fillPos,      \* words of back_buffer written by the running fill
    dma,          \* the transfer: busy, the slot it reads, words read
    iter,         \* iterations of the loop started so far
    contents,     \* history: what each slot holds
    sentWhat,     \* history: what the slot held when its transmission began
    overwrote     \* history: what the slot held when its fill began

loopVars == <<back_buffer, front_buffer, mem, phase, led_status, lpc, fillPos,
              dma, iter, contents, sentWhat, overwrote>>

VARIABLES
    pack_l,       \* the left sample handed to pack_lr_16
    pack_r,       \* the right sample handed to pack_lr_16
    packed,       \* the word pack_lr_16 returned
    packDone      \* pack_lr_16 has returned

packVars == <<pack_l, pack_r, packed, packDone>>

vars == <<synthVars, queueVars, loopVars, packVars>>

(***************************************************************************)
(* Inputs of the model.                                                    *)
(***************************************************************************)
Notes == {57, 69}

\* The packets the keyboard sends: note 57 struck at full velocity and
\* released by a note-off, note 69 struck at the lowest velocity and released
\* by a note-on of velocity 0, and the attack-time controller turned fully up.
Packets ==
    {MidiEvent(NOTE_ON, 57, 127), MidiEvent(NOTE_OFF, 57, 64),
     MidiEvent(NOTE_ON, 69, 1), MidiEvent(NOTE_ON, 69, 0),
     MidiEvent(CONTROL_CHANGE, 22, 127)}

\* The packets of the input paths: a pitch bend (0xE0) and control changes
\* 20 and 28 besides a note-on.
PITCH_BEND == 224
RawPackets ==
    {MidiEvent(NOTE_ON, 57, 127), MidiEvent(PITCH_BEND, 57, 64),
     MidiEvent(CONTROL_CHANGE, 20, 127), MidiEvent(CONTROL_CHANGE, 28, 127)}

(***************************************************************************)
(* The engine and the input task.                                          *)
(***************************************************************************)
\* No release of the voice is on record.
NoRelease == [on |-> FALSE, n |-> 0, samples |-> R0, level |-> R0, last |-> R0]

\* The record of releases after an event took the synth from pre to post: a
\* voice whose gate the event cleared starts a release of
\* release_time_s * SAMPLE_RATE samples from its level, and a voice the event
\* assigned a note to is in no release.
RelAfterEvent(r, pre, post) ==
    [i \in VoiceIdx |->
        IF pre.voices[i].gate /\ ~post.voices[i].gate
        THEN [on |-> TRUE, n |-> 0,
              samples |-> RMul(pre.release_time_s, RInt(SAMPLE_RATE)),
              level |-> pre.voices[i].env, last |-> pre.voices[i].env]
        ELSE IF post.voices[i] # pre.voices[i] /\ post.voices[i].gate
        THEN NoRelease
        ELSE r[i]]

\* No note-on has been processed, no voice assigned.
NoStrike == [count |-> 0, at |-> [i \in VoiceIdx |-> 0]]

\* The record of note-ons after an event took the synth from pre to post: a
\* note-on with velocity is counted, and the voice it changed is struck by it.
StrikesAfter(k, event, pre, post) ==
    IF StatusNybble(event.status) = NOTE_ON /\ event.data2 > 0
    THEN [count |-> k.count + 1,
          at |-> [i \in VoiceIdx |->
                    IF post.voices[i] # pre.voices[i] THEN k.count + 1
                    ELSE k.at[i]]]
    ELSE k

\* The record of releases after one sample: a releasing voice has one more.
RelAfterSample(r, pre) ==
    [i \in VoiceIdx |->
        IF r[i].on /\ pre.voices[i].stage = "Release"
        THEN [r[i] EXCEPT !.n = r[i].n + 1, !.last = pre.voices[i].env]
        ELSE r[i]]

\* The engine after n calls of Synth::process that found no event and
\* rendered the silence of Synth::new.
InitSynthAfter(n) ==
    /\ synth = SynthNew
    /\ pc = "idle"
    /\ frame = 0
    /\ calls = n
    /\ atStart = <<>>
    /\ synthAtStart = SynthNew
    /\ applied = <<>>
    /\ late = <<>>
    /\ released = {}
    /\ word = U32Zero
    /\ releases = [i \in VoiceIdx |-> NoRelease]
    /\ strikes = NoStrike

InitSynth == InitSynthAfter(0)

InitQueue ==
    /\ queue = <<>>
    /\ received = 0
    /\ accepted = <<>>
    /\ delivered = <<>>
    /\ qop = [op |-> "none"]

\* The notes released and not struck again, after one more event is applied.
ReleasedAfter(rel, event) ==
    LET status_nybble == StatusNybble(event.status)
    IN  IF status_nybble = NOTE_ON /\ event.data2 > 0 THEN {}
        ELSE IF status_nybble = NOTE_ON \/ status_nybble = NOTE_OFF
        THEN rel \cup {event.data1}
        ELSE rel

\* usb_input_task: one MidiPacket from midi_device.wait_for_event().
UsbPacket(event) ==
    /\ received < MaxEvents
    /\ received' = received + 1
    /\ queue' = IF UsbForwards(event.status) THEN Enqueue(queue, event)
                ELSE queue
    /\ late' = IF pc = "frames" /\ queue' # queue THEN Append(late, event)
               ELSE late
    /\ UNCHANGED <<synth, pc, frame, calls, atStart, synthAtStart, applied,
                   released, word, releases, strikes>>
    /\ UNCHANGED <<accepted, delivered, qop>>
    /\ UNCHANGED <<loopVars, packVars>>

\* The loop of main: one MidiPacket from midi_device.wait_for_event(),
\* enqueued whatever its status.
MainPacket(event) ==
    /\ received < MaxEvents
    /\ received' = received + 1
    /\ queue' = Enqueue(queue, event)
    /\ late' = IF pc = "frames" /\ queue' # queue THEN Append(late, event)
               ELSE late
    /\ UNCHANGED <<synth, pc, frame, calls, atStart, synthAtStart, applied,
                   released, word, releases, strikes>>
    /\ UNCHANGED <<accepted, delivered, qop>>
    /\ UNCHANGED <<loopVars, packVars>>

\* The sink asks for a buffer: Synth::process is entered.
ProcessCall ==
    /\ pc = "idle"
    /\ calls < MaxCalls
    /\ calls' = calls + 1
    /\ pc' = "drain"
    /\ atStart' = queue
    /\ synthAtStart' = synth
    /\ applied' = <<>>
    /\ UNCHANGED <<synth, frame, late, released, word, releases, strikes>>
    /\ UNCHANGED <<queueVars, loopVars, packVars>>

\* while let Some(event) = self.cons.dequeue() { ... }: one iteration, the
\* history of the applied events becoming trace.
DrainIteration(trace) ==
    /\ pc = "drain"
    /\ DequeueSome(queue)
    /\ LET event == Head(queue)
           post == ApplyEvent(synth, event)
       IN  /\ queue' = Dequeued(queue)
           /\ synth' = post
           /\ applied' = trace
           /\ released' = ReleasedAfter(released, event)
           /\ releases' = RelAfterEvent(releases, synth, post)
           /\ strikes' = StrikesAfter(strikes, event, synth, post)
    /\ UNCHANGED <<pc, frame, calls, atStart, synthAtStart, late, word>>
    /\ UNCHANGED <<received, accepted, delivered, qop>>
    /\ UNCHANGED <<loopVars, packVars>>

\* One iteration of the drain loop, recorded.
DrainStep == DrainIteration(Append(applied, Head(queue)))

\* One iteration of the drain loop with no record kept of the event.
DrainStepUnrecorded == DrainIteration(applied)

\* usb_input_task's loop { ... } without end: one more packet of a stream of
\* controller packets, not counted.
StreamPacket == MidiEvent(CONTROL_CHANGE, 21, 0)
UsbStream ==
    /\ queue' = IF UsbForwards(StreamPacket.status)
                THEN Enqueue(queue, StreamPacket) ELSE queue
    /\ queue' # queue
    /\ UNCHANGED <<synth, pc, frame, calls, atStart, synthAtStart, applied,
                   late, released, word, releases, strikes>>
    /\ UNCHANGED <<received, accepted, delivered, qop>>
    /\ UNCHANGED <<loopVars, packVars>>

\* dequeue returned None: the drain loop ends and rendering starts.
DrainEnd ==
    /\ pc = "drain"
    /\ ~DequeueSome(queue)
    /\ pc' = "frames"
    /\ frame' = 0
    /\ UNCHANGED <<synth, calls, atStart, synthAtStart, applied, late, released,
                   word, releases, strikes>>
    /\ UNCHANGED <<queueVars, loopVars, packVars>>

\* for w in buf.iter_mut() { ... }: one frame; after the last frame the call
\* returns ControlFlow::Continue(()).
RenderFrame ==
    /\ pc = "frames"
    /\ frame < BufLen
    /\ LET post == RenderSample(synth)
       IN  /\ synth' = post
           /\ word' = FrameWord(post)
    /\ releases' = RelAfterSample(releases, synth)
    /\ frame' = frame + 1
    /\ IF frame + 1 = BufLen
       THEN /\ pc' = "idle"
            /\ atStart' = <<>>
            /\ synthAtStart' = synth'
            /\ applied' = <<>>
            /\ late' = <<>>
       ELSE UNCHANGED <<pc, atStart, synthAtStart, applied, late>>
    /\ UNCHANGED <<calls, released, strikes>>
    /\ UNCHANGED <<queueVars, loopVars, packVars>>

(***************************************************************************)
(* The queue under a burst of packets: the input task receives MaxBurst    *)
(* distinct note-off packets while the engine's drain loop dequeues.       *)
(***************************************************************************)
BurstEvent(k) == MidiEvent(NOTE_OFF, k, 64)

\* usb_input_task: the next packet of the burst.
UsbBurst ==
    /\ received < MaxBurst
    /\ received' = received + 1
    /\ LET event == BurstEvent(received + 1)
       IN  /\ queue' = IF UsbForwards(event.status) THEN Enqueue(queue, event)
                       ELSE queue
           /\ accepted' = IF queue' # queue THEN Append(accepted, event)
                          ELSE accepted
           /\ qop' = [op |-> "enqueue", len |-> Len(queue),
                      ok |-> queue' # queue]
    /\ UNCHANGED delivered
    /\ UNCHANGED <<synthVars, loopVars, packVars>>

\* self.cons.dequeue() of the drain loop: Some(event), or None.
ConsumerDequeue ==
    /\ IF DequeueSome(queue)
       THEN /\ queue' = Dequeued(queue)
            /\ delivered' = Append(delivered, Head(queue))
       ELSE UNCHANGED <<queue, delivered>>
    /\ qop' = [op |-> "dequeue", len |-> Len(queue),
               some |-> DequeueSome(queue)]
    /\ UNCHANGED <<received, accepted>>
    /\ UNCHANGED <<synthVars, loopVars, packVars>>

(***************************************************************************)
(* The double-buffered loop of src/src/bin/main.rs.  The two halves of     *)
(* DMA_BUFFER are slot 0 and slot 1; the sink is the DMA transfer that     *)
(* i2s.write starts, which reads the slot word by word at its own pace and *)
(* signals completion after the last word.                                 *)
(***************************************************************************)
BUFFER_SIZE == PingSize
Slots == {0, 1}
\* (FREQ * 0x10000) / SAMPLE_RATE of bin/main.rs, with FREQ 440 at 48 kHz
PHASE_INC == (440 * 65536) \div 48000
SAMPLE_HIGH == 32767
SAMPLE_LOW == 32769

InitLoop ==
    /\ back_buffer = 0
    /\ front_buffer = 1
    /\ mem = [b \in Slots |-> [k \in 0 .. (BUFFER_SIZE - 1) |-> <<0, 0>>]]
    /\ phase = 0
    /\ led_status = FALSE
    /\ lpc = "write"
    /\ fillPos = 0
    /\ dma = [busy |-> FALSE, buf |-> 1, pos |-> 0]
    /\ iter = 0
    /\ contents = [b \in Slots |-> "initial"]
    /\ sentWhat = "none"
    /\ overwrote = "none"

\* Mutant of Transmitted: the slot being filled is handed to the sink.
TransmittedBack == back_buffer

\* The slot handed to i2s.write.
Transmitted == front_buffer

\* Mutant of AwaitReady: the loop does not wait for the completion signal.
AwaitSkipped(d) == TRUE

\* dma_future.await returns
AwaitReady(d) == ~d.busy

\* The head of the loop up to let dma_future = i2s.write(front_buffer).
LoopWrite ==
    /\ lpc = "write"
    /\ iter < MaxLoops
    /\ iter' = iter + 1
    /\ led_status' = ~led_status
    /\ dma' = [busy |-> TRUE, buf |-> Transmitted, pos |-> 0]
    /\ sentWhat' = contents[Transmitted]
    /\ contents' = [contents EXCEPT ![Transmitted] = "sending"]
    /\ overwrote' = "none"
    /\ lpc' = "fill"
    /\ fillPos' = 0
    /\ UNCHANGED <<back_buffer, front_buffer, mem, phase>>
    /\ UNCHANGED <<synthVars, queueVars, packVars>>

\* for s in back_buffer.iter_mut() { ... }: one word.
LoopFill ==
    /\ lpc = "fill"
    /\ fillPos < BUFFER_SIZE
    /\ LET next_phase == (phase + PHASE_INC) % 65536
           sample == IF next_phase < 32768 THEN SAMPLE_HIGH ELSE SAMPLE_LOW
       IN  /\ phase' = next_phase
           /\ mem' = [mem EXCEPT ![back_buffer][fillPos] = <<sample, sample>>]
    /\ fillPos' = fillPos + 1
    /\ overwrote' = IF fillPos = 0 THEN contents[back_buffer] ELSE overwrote
    /\ contents' = [contents EXCEPT ![back_buffer] =
                        IF fillPos + 1 = BUFFER_SIZE THEN "filled" ELSE "filling"]
    /\ lpc' = IF fillPos + 1 = BUFFER_SIZE THEN "await" ELSE "fill"
    /\ UNCHANGED <<back_buffer, front_buffer, led_status, dma, iter, sentWhat>>
    /\ UNCHANGED <<synthVars, queueVars, packVars>>

\* The sink reads one word of the slot it transmits; after the last word it
\* signals completion.
DmaWord ==
    /\ dma.busy
    /\ dma.pos < BUFFER_SIZE
    /\ dma' = [dma EXCEPT !.pos = dma.pos + 1,
                          !.busy = dma.pos + 1 < BUFFER_SIZE]
    /\ contents' = IF dma.pos + 1 = BUFFER_SIZE
                   THEN [contents EXCEPT ![dma.buf] = "sent"]
                   ELSE contents
    /\ UNCHANGED <<back_buffer, front_buffer, mem, phase, led_status, lpc,
                   fillPos, iter, sentWhat, overwrote>>
    /\ UNCHANGED <<synthVars, queueVars, packVars>>

\* dma_future.await; mem::swap(&mut back_buffer, &mut front_buffer);
LoopSwap ==
    /\ lpc = "await"
    /\ AwaitReady(dma)
    /\ back_buffer' = front_buffer
    /\ front_buffer' = back_buffer
    /\ lpc' = "write"
    /\ UNCHANGED <<mem, phase, led_status, fillPos, dma, iter, contents,
                   sentWhat, overwrote>>
    /\ UNCHANGED <<synthVars, queueVars, packVars>>

(***************************************************************************)
(* Specifications.                                                         *)
(***************************************************************************)
\* pack_lr_16 on a pair of samples.
PackSamples == {I16_MIN, -12000, -256, -1, 0, 1, 255, 12000, I16_MAX}

InitPack ==
    /\ pack_l = 0
    /\ pack_r = 0
    /\ packed = U32Zero
    /\ packDone = FALSE

InitPackInputs ==
    /\ pack_l \in PackSamples
    /\ pack_r \in PackSamples
    /\ packed = U32Zero
    /\ packDone = FALSE

PackCall ==
    /\ ~packDone
    /\ packed' = pack_lr_16(pack_l, pack_r)
    /\ packDone' = TRUE
    /\ UNCHANGED <<pack_l, pack_r>>
    /\ UNCHANGED <<synthVars, queueVars, loopVars>>

Init == InitSynth /\ InitQueue /\ InitLoop /\ InitPack

\* The input task has pushed a patch and two notes before the last two calls
\* of Synth::process: a square wave through the filter at its highest cutoff
\* and lowest resonance, the notes A1 and A3 at full velocity.
SoundingQueue ==
    <<MidiEvent(CONTROL_CHANGE, 21, 40), MidiEvent(CONTROL_CHANGE, 26, 127),
      MidiEvent(CONTROL_CHANGE, 27, 0), MidiEvent(NOTE_ON, 33, 127),
      MidiEvent(NOTE_ON, 57, 127)>>

\* The packets that follow: a third note and its end, and the first note's
\* end.
SoundingPackets ==
    {MidiEvent(NOTE_ON, 69, 127), MidiEvent(NOTE_OFF, 69, 64),
     MidiEvent(NOTE_OFF, 33, 64)}

InitSoundingQueue ==
    /\ queue = SoundingQueue
    /\ received = 0
    /\ accepted = <<>>
    /\ delivered = <<>>
    /\ qop = [op |-> "none"]

InitSounding ==
    InitSynthAfter(MaxCalls - 2) /\ InitSoundingQueue /\ InitLoop /\ InitPack

\* The engine and the input task.
Next ==
    \/ \E event \in Packets : UsbPacket(event)
    \/ ProcessCall
    \/ DrainStep
    \/ DrainEnd
    \/ RenderFrame

Spec == Init /\ [][Next]_vars

\* The engine playing the patch while the input task goes on.
NextSounding ==
    \/ \E event \in SoundingPackets : UsbPacket(event)
    \/ ProcessCall
    \/ DrainStep
    \/ DrainEnd
    \/ RenderFrame

SpecSounding == InitSounding /\ [][NextSounding]_vars

\* The engine and the two input paths, with packets of every kind.
NextInput ==
    \/ \E event \in RawPackets : UsbPacket(event)
    \/ \E event \in RawPackets : MainPacket(event)
    \/ ProcessCall
    \/ DrainStep
    \/ DrainEnd
    \/ RenderFrame

SpecInput == Init /\ [][NextInput]_vars

\* pack_lr_16 on pairs of samples, and on the frames of the engine playing
\* the patch.
InitPackSounding ==
    InitSynthAfter(MaxCalls - 2) /\ InitSoundingQueue /\ InitLoop
        /\ InitPackInputs

NextPack ==
    \/ PackCall
    \/ ProcessCall
    \/ DrainStep
    \/ DrainEnd
    \/ RenderFrame

SpecPack == InitPackSounding /\ [][NextPack]_vars

\* The engine under a stream of packets without end.  Both contexts keep
\* running, each on its own core: the input task takes its next packet, and
\* the drain loop its next dequeue, which returns Some or None.
DrainLoop ==
    \/ DrainStepUnrecorded
    \/ DrainEnd

NextStream ==
    \/ UsbStream
    \/ ProcessCall
    \/ DrainLoop
    \/ RenderFrame

FairSpecStream ==
    /\ Init
    /\ [][NextStream]_vars
    /\ WF_vars(ProcessCall)
    /\ WF_vars(DrainLoop)
    /\ WF_vars(UsbStream)

\* The queue between the input task and the drain loop.
NextQueue ==
    \/ UsbBurst
    \/ ConsumerDequeue

SpecQueue == Init /\ [][NextQueue]_vars

\* The double-buffered loop and its sink.
NextPingPong ==
    \/ LoopWrite
    \/ LoopFill
    \/ DmaWord
    \/ LoopSwap

SpecPingPong == Init /\ [][NextPingPong]_vars

(***************************************************************************)
(* Helpers of the properties.                                              *)
(***************************************************************************)
IsPrefix(p, q) == Len(p) <= Len(q) /\ SubSeq(q, 1, Len(p)) = p

\* The synth after the events of a sequence are applied in order.
RECURSIVE ApplyAll(_, _)
ApplyAll(s, events) ==
    IF events = <<>> THEN s
    ELSE ApplyAll(ApplyEvent(s, Head(events)), Tail(events))

\* The synth after n samples.
RECURSIVE RenderN(_, _)
RenderN(s, n) == IF n = 0 THEN s ELSE RenderN(RenderSample(s), n - 1)

\* The drain loop has just applied an event and rendered nothing since.
JustApplied == pc = "drain" /\ applied # <<>>
LastEvent == applied[Len(applied)]
\* The synth the last applied event was applied to.
BeforeLast == ApplyAll(synthAtStart, SubSeq(applied, 1, Len(applied) - 1))

NoteOn(note, velocity) == MidiEvent(NOTE_ON, note, velocity)
NoteOff(note) == MidiEvent(NOTE_OFF, note, 64)
\* The notes of the properties: those played, and note 0 of an unused voice.
AnyNote == Notes \cup {0}

(***************************************************************************)
(* C1: in the double-buffered loop every slot is owned by one party at     *)
(* every instant: the engine never writes into the slot the sink is        *)
(* transmitting, whatever the number of iterations and the timing of the   *)
(* sink's completion signal.                                               *)
(***************************************************************************)
EngineWrites(b) == lpc = "fill" /\ back_buffer = b
SinkReads(b) == dma.busy /\ dma.buf = b

ExclusiveOwnership ==
    /\ back_buffer # front_buffer
    /\ \A b \in Slots : ~(EngineWrites(b) /\ SinkReads(b))

\* In a later iteration the engine is in the middle of filling one slot while
\* the sink is in the middle of transmitting the other.
ExclusiveOwnershipWitness ==
    /\ iter >= 2
    /\ lpc = "fill"
    /\ fillPos >= 1
    /\ dma.busy
    /\ dma.pos >= 1
    /\ dma.buf # back_buffer

(***************************************************************************)
(* C2, as claimed: every transmission, the first one after start-up        *)
(* included, sends a slot the engine has finished filling, and every fill  *)
(* overwrites a slot whose previous contents the sink has signalled as     *)
(* transmitted.                                                            *)
(***************************************************************************)
HandOffOrder ==
    /\ sentWhat \in {"none", "filled"}
    /\ overwrote \in {"none", "sent"}

(***************************************************************************)
(* C2, amended: every transmission but the first sends a slot the engine   *)
(* has finished filling, and every fill but the first overwrites a slot    *)
(* whose previous contents the sink has signalled as transmitted; the      *)
(* first transmission sends the zero-initialised front slot, which the     *)
(* engine never filled, and the first fill overwrites the zero-initialised *)
(* back slot, which was never transmitted.                                 *)
(***************************************************************************)
HandOffOrderAfterStart ==
    /\ iter = 0 => (sentWhat = "none" /\ overwrote = "none")
    /\ iter = 1 => (sentWhat = "initial" /\ overwrote \in {"none", "initial"})
    /\ iter > 1 => (sentWhat = "filled" /\ overwrote \in {"none", "sent"})

\* The third iteration transmits a filled slot and has begun to overwrite a
\* slot whose transmission completed.
HandOffOrderWitness ==
    /\ iter >= 3
    /\ sentWhat = "filled"
    /\ overwrote = "sent"
    /\ lpc = "fill"
    /\ dma.busy

(***************************************************************************)
(* C3: the queue holds up to 32 events: enqueue succeeds whenever fewer    *)
(* than 32 events are queued, a full queue drops the new event and keeps   *)
(* the queued ones, and the queue never holds more than 32 events.         *)
(***************************************************************************)
QueueHoldsThirtyTwo ==
    /\ Len(queue) <= MIDI_QUEUE_SIZE
    /\ qop.op = "enqueue" =>
        /\ qop.len < MIDI_QUEUE_SIZE => qop.ok
        /\ ~qop.ok => Len(queue) = qop.len

(***************************************************************************)
(* C4: under any interleaving of enqueues and dequeues every accepted      *)
(* event is delivered once, in the order of acceptance, or is still        *)
(* queued; a dequeue on an empty queue returns nothing.                    *)
(***************************************************************************)
FifoExactlyOnce ==
    /\ delivered \o queue = accepted
    /\ \A i, j \in 1 .. Len(delivered) :
            i < j => delivered[i].data1 < delivered[j].data1
    /\ qop.op = "dequeue" => (qop.some <=> qop.len > 0)

\* The burst overflowed the queue, the drain loop delivered what was
\* accepted, and a further dequeue found the queue empty.
FifoExactlyOnceWitness ==
    /\ Len(accepted) < received
    /\ Len(delivered) = Len(accepted)
    /\ Len(delivered) >= 2
    /\ qop.op = "dequeue"
    /\ ~qop.some

(***************************************************************************)
(* C5: within one call of Synth::process, every event that is in the queue *)
(* when the call starts is applied, in FIFO order, before the first frame  *)
(* is computed; the frames are computed from the state those events left   *)
(* and from nothing else; an event enqueued after the drain loop has ended *)
(* stays in the queue for the whole call, so that it is in the queue when  *)
(* the next call starts.                                                   *)
(***************************************************************************)
DrainBeforeFrames ==
    /\ pc = "frames" =>
        /\ IsPrefix(atStart, applied)
        /\ synth = RenderN(ApplyAll(synthAtStart, applied), frame)
        /\ queue = late
    /\ pc = "drain" =>
        /\ synth = ApplyAll(synthAtStart, applied)
        /\ \/ IsPrefix(applied, atStart)
           \/ IsPrefix(atStart, applied)

\* A call that found two events queued is rendering its second frame while a
\* third event, enqueued after the drain loop ended, waits in the queue.
DrainBeforeFramesWitness ==
    /\ pc = "frames"
    /\ frame >= 1
    /\ Len(atStart) >= 2
    /\ Len(late) >= 1
    /\ synth # synthAtStart

(***************************************************************************)
(* C6: a note-on with velocity > 0 is assigned to the first voice in array *)
(* order whose envelope stage is Idle if there is one; otherwise, and only *)
(* otherwise, to the voice with the smallest age, the lowest index winning *)
(* among equal ages.  No other voice changes.                              *)
(***************************************************************************)
HasIdle(voices) == \E i \in VoiceIdx : voices[i].stage = "Idle"
FirstIdle(voices) ==
    CHOOSE i \in VoiceIdx :
        /\ voices[i].stage = "Idle"
        /\ \A j \in VoiceIdx : voices[j].stage = "Idle" => i <= j
SmallestAge(voices) ==
    CHOOSE i \in VoiceIdx :
        \A j \in VoiceIdx :
            \/ U32Lt(voices[i].age, voices[j].age)
            \/ (voices[i].age = voices[j].age /\ i <= j)
RuleChoice(voices) ==
    IF HasIdle(voices) THEN FirstIdle(voices) ELSE SmallestAge(voices)

AssignedTo(s, post, i, note) ==
    /\ post.voices[i].note = note
    /\ post.voices[i].stage = "Attack"
    /\ post.voices[i].gate
    /\ post.voices[i].age = post.age_counter
    /\ post.voices[i] # s.voices[i]
    /\ \A j \in VoiceIdx \ {i} : post.voices[j] = s.voices[j]

VelocityZeroIsNoteOff ==
    pc = "drain" =>
        \A note \in AnyNote :
            LET post == ApplyEvent(synth, NoteOn(note, 0))
            IN  /\ post = ApplyEvent(synth, NoteOff(note))
                /\ post.age_counter = synth.age_counter
                /\ \A i \in VoiceIdx :
                    /\ post.voices[i].note = synth.voices[i].note
                    /\ post.voices[i].age = synth.voices[i].age
                    /\ (synth.voices[i].gate /\ synth.voices[i].note = note)
                          => (post.voices[i].stage = "Release"
                              /\ ~post.voices[i].gate)

\* A note-on of velocity 0 has just released a sounding voice.
VelocityZeroWitness ==
    /\ JustApplied
    /\ LastEvent = NoteOn(69, 0)
    /\ \E i \in VoiceIdx :
        /\ BeforeLast.voices[i].gate
        /\ BeforeLast.voices[i].note = 69
        /\ RGt(BeforeLast.voices[i].env, R0)
        /\ synth.voices[i].stage = "Release"

(***************************************************************************)
(* C8: note_off(n) puts every voice whose note is n and whose gate is true  *)
(* into Release, with the gate cleared and a release increment of          *)
(* level / max(1, release_time_s * SAMPLE_RATE), and leaves unchanged      *)
(* every other voice, the age_counter and the parameters.                  *)
(***************************************************************************)
ReleaseIncrement(s, v) ==
    RDiv(v.env, RMax(R1, RMul(s.release_time_s, RInt(SAMPLE_RATE))))

NoteOffFrame ==
    pc = "drain" =>
        \A note \in AnyNote :
            LET post == ApplyEvent(synth, NoteOff(note))
            IN  /\ [post EXCEPT !.voices = synth.voices] = synth
                /\ \A i \in VoiceIdx :
                    LET v == synth.voices[i]
                    IN  IF v.note = note /\ v.gate
                        THEN post.voices[i] =
                                [v EXCEPT !.gate = FALSE,
                                          !.stage = "Release",
                                          !.release_inc = ReleaseIncrement(synth, v)]
                        ELSE post.voices[i] = v

\* A note-off has just released a sounding voice below its target level, and
\* left alone a gated voice that plays another note.
NoteOffFrameWitness ==
    /\ JustApplied
    /\ StatusNybble(LastEvent.status) = NOTE_OFF
    /\ \E i, j \in VoiceIdx :
        /\ BeforeLast.voices[i].gate
        /\ BeforeLast.voices[i].note = LastEvent.data1
        /\ RGt(BeforeLast.voices[i].env, R0)
        /\ RLt(BeforeLast.voices[i].env, BeforeLast.voices[i].target_amp)
        /\ synth.voices[i].stage = "Release"
        /\ RGt(synth.voices[i].release_inc, R0)
        /\ BeforeLast.voices[j].gate
        /\ BeforeLast.voices[j].note # LastEvent.data1
        /\ synth.voices[j] = BeforeLast.voices[j]

(***************************************************************************)
(* C9: a redundant note_off is idempotent: once note_off(n) has been       *)
(* applied, applying it again, by either event and after any number of     *)
(* rendered samples, changes nothing as long as no note-on was applied in  *)
(* between: the release increment is not recomputed and the stage is not   *)
(* entered again.                                                          *)
(***************************************************************************)
RedundantNoteOff ==
    pc = "drain" =>
        \A note \in released :
            /\ ApplyEvent(synth, NoteOff(note)) = synth
            /\ ApplyEvent(synth, NoteOn(note, 0)) = synth

\* The second call applies a second note-off to the only note ever struck,
\* whose voice is still releasing after the samples of the first call.
RedundantNoteOffWitness ==
    /\ JustApplied
    /\ applied = <<NoteOff(57)>>
    /\ synth.age_counter = <<0, 1>>
    /\ \E i \in VoiceIdx :
        /\ synthAtStart.voices[i].stage = "Release"
        /\ synthAtStart.voices[i].note = 57
        /\ RGt(synthAtStart.voices[i].env, R0)
        /\ RLt(synthAtStart.voices[i].env, synthAtStart.voices[i].target_amp)
        /\ synth.voices[i] = synthAtStart.voices[i]

(***************************************************************************)
(* C10: for every voice and every sample rendered while the voice is in    *)
(* Attack, the level does not decrease from one sample to the next and     *)
(* does not exceed the voice's target_amp, for voices allocated from Idle  *)
(* and for stolen voices.                                                  *)
(***************************************************************************)
AttackMonotone ==
    [][(pc = "frames" /\ frame' = frame + 1) =>
        \A i \in VoiceIdx :
            synth.voices[i].stage = "Attack" =>
                /\ RLe(synth.voices[i].env, synth'.voices[i].env)
                /\ RLe(synth'.voices[i].env, synth'.voices[i].target_amp)]_vars

(***************************************************************************)
(* C11, as claimed: a voice that note_off put into Release, and that no    *)
(* later event reassigned, has a level that does not increase from one     *)
(* sample to the next and reaches exactly 0, with stage Idle and gate      *)
(* false, after release_time_s * SAMPLE_RATE samples give or take one,     *)
(* from whatever level the release was entered, level 0 included.          *)
(***************************************************************************)
WithinOneSample(n, samples) ==
    /\ RLe(RSub(samples, R1), RInt(n))
    /\ RLe(RInt(n), RAdd(samples, R1))

CcValues == {0, 1, 31, 32, 63, 64, 95, 96, 126, 127}
CcNumbers == 21 .. 27
ControlChangeEvent(cc_num, cc_val) == MidiEvent(CONTROL_CHANGE, cc_num, cc_val)

CcParameter(cc_num) ==
    CASE cc_num = 21 -> "waveform"
      [] cc_num = 22 -> "attack_time_s"
      [] cc_num = 23 -> "decay_time_s"
      [] cc_num = 24 -> "sustain_level"
      [] cc_num = 25 -> "release_time_s"
      [] cc_num = 26 -> "filter_cutoff"
      [] cc_num = 27 -> "filter_resonance"

Quartile(cc_val) == <<"Sine", "Square", "Sawtooth", "Triangle">>[(cc_val \div 32) + 1]

\* The range of the parameter, as <<value at 0, value at 127>>.
CcRange(cc_num) ==
    CASE cc_num \in {22, 23} -> <<Rat(1, 1000), RInt(2)>>
      [] cc_num = 25 -> <<Rat(1, 1000), RInt(3)>>
      [] cc_num \in {24, 26} -> <<R0, R1>>
      [] cc_num = 27 -> <<R0, RInt(4)>>

\* The value at cc_val of the line from the range's lower to its upper end.
CcLinear(cc_num, cc_val) ==
    LET lo == CcRange(cc_num)[1]
        hi == CcRange(cc_num)[2]
    IN  RAdd(lo, RMul(Rat(cc_val, 127), RSub(hi, lo)))

ControlChangeFrame ==
    pc = "drain" =>
        \A cc_num \in CcNumbers, cc_val \in CcValues :
            LET post == ApplyEvent(synth, ControlChangeEvent(cc_num, cc_val))
                name == CcParameter(cc_num)
            IN  /\ post = [synth EXCEPT ![name] = post[name]]
                /\ post[name] = IF cc_num = 21 THEN Quartile(cc_val)
                                 ELSE CcLinear(cc_num, cc_val)

\* The attack-time controller, turned fully up while a voice is sounding, has
\* set the attack time to its upper end and changed nothing else.
ControlChangeFrameWitness ==
    /\ JustApplied
    /\ LastEvent = ControlChangeEvent(22, 127)
    /\ synth.attack_time_s = RInt(2)
    /\ BeforeLast.attack_time_s # RInt(2)
    /\ synth = [BeforeLast EXCEPT !.attack_time_s = RInt(2)]
    /\ \E i \in VoiceIdx : RGt(synth.voices[i].env, R0)

(***************************************************************************)
(* C13: an event whose status nibble is not 0x80, 0x90 or 0xB0, and a      *)
(* control change whose number is outside 21..27, is consumed by the drain *)
(* loop and leaves the whole engine state as it was; the events that       *)
(* follow it in the queue are still applied, so that the engine at the end *)
(* of the drain loop is the one the supported events alone produce.        *)
(***************************************************************************)
Supported(event) ==
    \/ StatusNybble(event.status) \in {NOTE_ON, NOTE_OFF}
    \/ /\ StatusNybble(event.status) = CONTROL_CHANGE
       /\ event.data1 \in CcNumbers

UnsupportedIgnored ==
    /\ (JustApplied /\ ~Supported(LastEvent)) => synth = BeforeLast
    /\ (pc = "drain" /\ queue # <<>> /\ ~Supported(Head(queue))) =>
            /\ DequeueSome(queue)
            /\ ApplyEvent(synth, Head(queue)) = synth
    /\ pc = "frames" =>
            /\ IsPrefix(atStart, applied)
            /\ frame = 0 =>
                   synth = ApplyAll(synthAtStart, SelectSeq(applied, Supported))

UnsupportedIgnoredWitness ==
    /\ pc = "frames"
    /\ frame = 0
    /\ Len(applied) = 3
    /\ applied[1].status = PITCH_BEND
    /\ applied[2] = MidiEvent(CONTROL_CHANGE, 28, 127)
    /\ applied[3] = NoteOn(57, 127)
    /\ synth.voices[0].gate
    /\ synth.voices[0].note = 57

(***************************************************************************)
(* C14: the input path enqueues a message only if its status nibble is     *)
(* note-on, note-off or control change, in every input path of the         *)
(* repository: no event of another status is ever in the queue.            *)
(***************************************************************************)
OnlyForwardedQueued ==
    \A k \in 1 .. Len(queue) : UsbForwards(queue[k].status)

(***************************************************************************)
(* C15: for every pair of signed 16-bit samples (l, r) the packed word     *)
(* holds the two's-complement bits of l in its high half and those of r in *)
(* its low half, so that unpacking returns (l, r), for negative values     *)
(* too; every frame the engine writes has equal halves, which are the      *)
(* bits of the frame's sample.                                             *)
(***************************************************************************)
\* The signed value of 16 two's-complement bits.
U16AsI16(h) == IF h > I16_MAX THEN h - HALF ELSE h
\* 16 bits.
IsU16(h) == h \in 0 .. (HALF - 1)

PackedHalves ==
    /\ packDone =>
            /\ IsU16(packed[1]) /\ IsU16(packed[2])
            /\ U16AsI16(packed[1]) = pack_l
            /\ U16AsI16(packed[2]) = pack_r
            /\ (pack_l < 0) = (packed[1] >= HALF \div 2)
            /\ (pack_r < 0) = (packed[2] >= HALF \div 2)
    /\ IsU16(word[1]) /\ IsU16(word[2])
    /\ word[1] = word[2]
    /\ (pc = "frames" /\ frame > 0) \/ (pc = "idle" /\ calls > 0) =>
            U16AsI16(word[1]) = FrameSample(synth)

PackedHalvesWitness ==
    /\ packDone
    /\ pack_l = -1
    /\ pack_r = I16_MIN
    /\ packed = <<HALF - 1, HALF \div 2>>
    /\ pc = "frames"
    /\ frame > 0
    /\ U16AsI16(word[1]) < 0

(***************************************************************************)
(* C16, as claimed: at any instant all voices share one envelope shape:    *)
(* after a control change to the attack time, the decay time or the        *)
(* sustain level the envelope of every sounding voice follows the new      *)
(* value, and no voice keeps ramps or a sustain level of its own.          *)
(***************************************************************************)
\* The ramps and the sustain level of voice v are those of the parameters of s.
FollowsParameters(s, v) ==
    /\ v.attack_inc = RDiv(v.target_amp, RampSamples(s.attack_time_s))
    /\ v.decay_inc = RDiv(RSub(v.target_amp, RMul(s.sustain_level, v.target_amp)),
                          RampSamples(s.decay_time_s))
    /\ v.sustain_level = s.sustain_level

SharedEnvelopeShape ==
    \A i \in VoiceIdx :
        synth.voices[i].gate => FollowsParameters(synth, synth.voices[i])

(***************************************************************************)
(* C16, amended: the envelope shape is taken per voice when the voice is   *)
(* assigned: a note-on gives its voice the ramps and the sustain level of  *)
(* the parameters of that moment; a control change to the attack time, the *)
(* decay time or the sustain level changes no voice, and neither does a    *)
(* rendered sample change a voice's ramps or sustain level, so a sounding  *)
(* voice keeps its own values and only later notes take the new ones.      *)
(***************************************************************************)
EnvelopeControls ==
    {ControlChangeEvent(cc_num, cc_val) : cc_num \in 22 .. 24,
                                          cc_val \in {0, 64, 127}}
NoteOnPackets == {NoteOn(57, 127), NoteOn(69, 1)}
\* The voice an event has changed.
Assigned(pre, post) == CHOOSE i \in VoiceIdx : post.voices[i] # pre.voices[i]
SameShape(v, w) ==
    /\ v.attack_inc = w.attack_inc
    /\ v.decay_inc = w.decay_inc
    /\ v.sustain_level = w.sustain_level

EnvelopeShapePerVoice ==
    /\ pc = "drain" =>
            /\ \A event \in EnvelopeControls :
                    ApplyEvent(synth, event).voices = synth.voices
            /\ \A event \in NoteOnPackets :
                    LET post == ApplyEvent(synth, event)
                    IN  FollowsParameters(synth,
                                          post.voices[Assigned(synth, post)])
    /\ (JustApplied /\ LastEvent \in Packets
            /\ StatusNybble(LastEvent.status) = CONTROL_CHANGE) =>
            synth.voices = BeforeLast.voices
    /\ pc = "frames" =>
            \A i \in VoiceIdx :
                SameShape(RenderSample(synth).voices[i], synth.voices[i])

\* A control change has just been applied, one voice sounds with the ramps of
\* the older parameters, and a later note-on takes the new ones.
EnvelopeShapePerVoiceWitness ==
    /\ JustApplied
    /\ LastEvent = ControlChangeEvent(22, 127)
    /\ synth.attack_time_s # BeforeLast.attack_time_s
    /\ \E i \in VoiceIdx :
            /\ synth.voices[i].gate
            /\ RGt(synth.voices[i].env, R0)
            /\ ~FollowsParameters(synth, synth.voices[i])
            /\ FollowsParameters(BeforeLast, synth.voices[i])
    /\ LET post == ApplyEvent(synth, NoteOn(69, 1))
       IN  post.voices[Assigned(synth, post)].attack_inc =
               RDiv(Rat(1, 127), RInt(2 * SAMPLE_RATE))

(***************************************************************************)
(* C17: a note-on with velocity above 0 changes the note, age and gate of  *)
(* exactly one voice and adds one to age_counter, wrapping at 2^32, the    *)
(* chosen voice receiving the new counter value as its age; note-off       *)
(* events, control changes and rendered samples never change age_counter   *)
(* or the note or the age of any voice.                                    *)
(***************************************************************************)
\* Voice i has the same note, age and gate in pre and in post.
SameNoteAgeGate(pre, post, i) ==
    /\ post.voices[i].note = pre.voices[i].note
    /\ post.voices[i].age = pre.voices[i].age
    /\ post.voices[i].gate = pre.voices[i].gate
\* Neither the counter nor any voice's note or age differs.
SameCounterNoteAge(pre, post) ==
    /\ post.age_counter = pre.age_counter
    /\ \A i \in VoiceIdx :
            /\ post.voices[i].note = pre.voices[i].note
            /\ post.voices[i].age = pre.voices[i].age
\* The note-on of event, applied to pre, assigns one voice and counts it.
AssignsOneVoice(pre, event) ==
    LET post == ApplyEvent(pre, event)
        changed == {i \in VoiceIdx : ~SameNoteAgeGate(pre, post, i)}
    IN  /\ post.age_counter = wrapping_add_1(pre.age_counter)
        /\ Cardinality(changed) = 1
        /\ \A i \in changed :
                /\ post.voices[i].note = event.data1
                /\ post.voices[i].age = post.age_counter
                /\ post.voices[i].gate
        /\ \A i \in VoiceIdx \ changed : post.voices[i] = pre.voices[i]
\* The engine with its counter at the last value before the wrap.
AtLastCount(s) == [s EXCEPT !.age_counter = U32Max]

NoteOnCountsOneVoice ==
    /\ pc = "drain" =>
            /\ \A event \in NoteOnPackets :
                    /\ AssignsOneVoice(synth, event)
                    /\ ApplyEvent(synth, event).age_counter # synth.age_counter
                    /\ ApplyEvent(AtLastCount(synth), event).age_counter = U32Zero
                    /\ \E i \in VoiceIdx :
                            LET v == ApplyEvent(AtLastCount(synth), event).voices[i]
                            IN  v.age = U32Zero /\ v.gate /\ v.note = event.data1
            /\ \A event \in Packets \ NoteOnPackets :
                    SameCounterNoteAge(synth, ApplyEvent(synth, event))
    /\ (JustApplied /\ LastEvent \in NoteOnPackets) =>
            /\ synth.age_counter = wrapping_add_1(BeforeLast.age_counter)
            /\ Cardinality({i \in VoiceIdx :
                                ~SameNoteAgeGate(BeforeLast, synth, i)}) = 1
    /\ (JustApplied /\ LastEvent \notin NoteOnPackets) =>
            SameCounterNoteAge(BeforeLast, synth)
    /\ pc = "frames" => SameCounterNoteAge(synth, RenderSample(synth))

\* The third note-on has taken the oldest voice, after frames were rendered.
NoteOnCountsOneVoiceWitness ==
    /\ JustApplied
    /\ LastEvent \in NoteOnPackets
    /\ calls > 1
    /\ \A i \in VoiceIdx : active(BeforeLast.voices[i])
    /\ synth.age_counter = <<0, 3>>
    /\ \E i \in VoiceIdx :
            /\ synth.voices[i].age = <<0, 3>>
            /\ BeforeLast.voices[i].age = <<0, 1>>
            /\ BeforeLast.voices[i].note # synth.voices[i].note

(***************************************************************************)
(* C18, as claimed: a voice in Sustain keeps its stage and its level over  *)
(* the rendered samples, and the only event that takes a voice out of      *)
(* Sustain is a note-off for that voice's note.                            *)
(***************************************************************************)
\* event ends note: a note-off, or a note-on of velocity 0.
EndsNote(event, note) ==
    /\ event.data1 = note
    /\ \/ StatusNybble(event.status) = NOTE_OFF
       \/ StatusNybble(event.status) = NOTE_ON /\ ~HasVelocity(event)
\* A rendered sample changes neither stage nor level of a voice in Sustain.
SustainHolds ==
    pc = "frames" =>
        \A i \in VoiceIdx :
            synth.voices[i].stage = "Sustain" =>
                /\ RenderSample(synth).voices[i].stage = "Sustain"
                /\ RenderSample(synth).voices[i].env = synth.voices[i].env

SustainLeftByNoteOffOnly ==
    /\ SustainHolds
    /\ JustApplied =>
            \A i \in VoiceIdx :
                (BeforeLast.voices[i].stage = "Sustain"
                    /\ synth.voices[i].stage # "Sustain") =>
                        EndsNote(LastEvent, BeforeLast.voices[i].note)

(***************************************************************************)
(* C18, amended: a voice in Sustain keeps its stage and its level over the *)
(* rendered samples; an event takes it out of Sustain only if it is a      *)
(* note-off for the voice's note, which puts it into Release, or a note-on *)
(* with velocity above 0 that steals the voice, every voice being active   *)
(* and this one the oldest, which puts it into Attack at the level it has. *)
(***************************************************************************)
\* The note-on of event steals voice i of s.
Steals(s, event, i) ==
    /\ StatusNybble(event.status) = NOTE_ON
    /\ HasVelocity(event)
    /\ FreeVoice(s.voices) = -1
    /\ OldestVoice(s.voices) = i
\* What event does to voice i of pre, a voice in Sustain.
SustainExit(pre, event, i) ==
    LET v == pre.voices[i]
        w == ApplyEvent(pre, event).voices[i]
    IN  \/ w = v
        \/ /\ EndsNote(event, v.note)
           /\ w.stage = "Release"
           /\ ~w.gate
           /\ w.env = v.env
        \/ /\ Steals(pre, event, i)
           /\ w.stage = "Attack"
           /\ w.gate
           /\ w.env = v.env

SustainLeftByNoteOffOrSteal ==
    /\ SustainHolds
    /\ pc = "drain" =>
            \A event \in Packets : \A i \in VoiceIdx :
                synth.voices[i].stage = "Sustain" =>
                    SustainExit(synth, event, i)
    /\ JustApplied =>
            \A i \in VoiceIdx :
                (BeforeLast.voices[i].stage = "Sustain"
                    /\ synth.voices[i].stage # "Sustain") =>
                        \/ EndsNote(LastEvent, BeforeLast.voices[i].note)
                        \/ Steals(BeforeLast, LastEvent, i)

\* A voice has stayed in Sustain over rendered samples and a note-on has now
\* stolen it, while the other voice is still in Sustain.
SustainLeftByNoteOffOrStealWitness ==
    /\ JustApplied
    /\ \E i, j \in VoiceIdx :
            /\ i # j
            /\ BeforeLast.voices[i].stage = "Sustain"
            /\ RGt(BeforeLast.voices[i].env, R0)
            /\ Steals(BeforeLast, LastEvent, i)
            /\ synth.voices[i].stage = "Attack"
            /\ synth.voices[i].env = BeforeLast.voices[i].env
            /\ synth.voices[j].stage = "Sustain"

(***************************************************************************)
(* C19: assigning a note to a voice, idle or stolen, overwrites the note,  *)
(* the frequency, the target amplitude, the age, the gate, the attack and  *)
(* decay increments and the stage, which becomes Attack, and leaves the    *)
(* voice's level, its oscillator phase and both filter registers as they   *)
(* were: stealing never resets the level to zero.                          *)
(***************************************************************************)
\* The notes assigned: one of the packets, and a low note struck softly.
AssignedNotes == {NoteOn(69, 127), NoteOn(45, 1)}
\* Voice w is voice v assigned to the note of event with the parameters of s
\* and the age counted.
AssignedFrom(s, v, w, event, age) ==
    /\ w.note = event.data1
    /\ w.freq = midi_note_to_freq(event.data1)
    /\ w.target_amp = Rat(event.data2, 127)
    /\ w.age = age
    /\ w.gate
    /\ w.stage = "Attack"
    /\ FollowsParameters(s, w)
    /\ w.env = v.env
    /\ w.phase = v.phase
    /\ w.filter_buf0 = v.filter_buf0
    /\ w.filter_buf1 = v.filter_buf1

AssignmentKeepsSound ==
    /\ pc = "drain" =>
            \A event \in AssignedNotes :
                LET post == ApplyEvent(synth, event)
                    i == Assigned(synth, post)
                IN  AssignedFrom(synth, synth.voices[i], post.voices[i], event,
                                 post.age_counter)
    /\ (JustApplied /\ StatusNybble(LastEvent.status) = NOTE_ON
            /\ HasVelocity(LastEvent)) =>
            LET i == Assigned(BeforeLast, synth)
            IN  AssignedFrom(BeforeLast, BeforeLast.voices[i], synth.voices[i],
                             LastEvent, synth.age_counter)

\* A sounding voice has been stolen: its level, phase and filter registers,
\* none of them 0, are those it had, and its note is the new one.
AssignmentKeepsSoundWitness ==
    /\ JustApplied
    /\ LastEvent = NoteOn(69, 127)
    /\ LET i == Assigned(BeforeLast, synth)
           v == BeforeLast.voices[i]
       IN  /\ Steals(BeforeLast, LastEvent, i)
           /\ v.note = 33
           /\ RGt(v.env, R0)
           /\ v.phase # R0
           /\ v.filter_buf0 # R0
           /\ v.filter_buf1 # R0
           /\ synth.voices[i].note = 69
           /\ synth.voices[i].env = v.env
           /\ synth.voices[i].phase = v.phase

(***************************************************************************)
(* C20: every render call completes, whatever the input context does       *)
(* concurrently, pushing events while the drain loop runs included: the    *)
(* drain loop of a call that has started comes to its end and the frames   *)
(* of the buffer are rendered.                                             *)
(***************************************************************************)
DrainLoopEnds == (pc = "drain") ~> (pc = "frames")

(***************************************************************************)
(* C21: in every reachable engine state and for every voice, gate is true  *)
(* exactly when the stage is Attack, Decay or Sustain, so that it is false *)
(* in Idle and in Release, after any sequence of note-on, note-off and     *)
(* control-change events and rendered samples.                             *)
(***************************************************************************)
GatedStages == {"Attack", "Decay", "Sustain"}
GateOf(v) == v.gate <=> v.stage \in GatedStages

GateFollowsStage ==
    /\ \A i \in VoiceIdx : GateOf(synth.voices[i])
    /\ pc = "drain" =>
            \A event \in Packets : \A i \in VoiceIdx :
                GateOf(ApplyEvent(synth, event).voices[i])

\* After rendered samples one voice holds its note in Sustain with its gate up
\* and the other is releasing with its gate down.
GateFollowsStageWitness ==
    /\ pc = "frames"
    /\ frame > 0
    /\ \E i, j \in VoiceIdx :
            /\ synth.voices[i].stage = "Sustain"
            /\ synth.voices[i].gate
            /\ synth.voices[j].stage = "Release"
            /\ ~synth.voices[j].gate
            /\ RGt(synth.voices[j].env, R0)

(***************************************************************************)
(* C22: in every reachable engine state a voice whose stage is Idle has    *)
(* level exactly 0 and every level lies in [0, 1]; hence the free-voice    *)
(* test of the code, not active, selects exactly the voices whose stage is *)
(* Idle, and the voice a note-on takes as free is the first Idle one.      *)
(***************************************************************************)
\* The first voice whose stage is Idle, or -1.
IdleChoice(voices) == IF HasIdle(voices) THEN FirstIdle(voices) ELSE -1
LevelInRange(s) ==
    \A i \in VoiceIdx :
        /\ s.voices[i].stage = "Idle" => s.voices[i].env = R0
        /\ RGe(s.voices[i].env, R0)
        /\ RLe(s.voices[i].env, R1)
        /\ ~active(s.voices[i]) <=> s.voices[i].stage = "Idle"

IdleIsSilent ==
    /\ LevelInRange(synth)
    /\ FreeVoice(synth.voices) = IdleChoice(synth.voices)
    /\ pc = "drain" =>
            \A event \in Packets : LevelInRange(ApplyEvent(synth, event))
    /\ pc = "frames" => LevelInRange(RenderSample(synth))

\* A release from a level above 0 has ended: the voice is Idle at level 0 and
\* is the free voice, while the other voice sounds.
IdleIsSilentWitness ==
    /\ pc = "frames"
    /\ \E i, j \in VoiceIdx :
            /\ releases[i].on
            /\ RGt(releases[i].level, R0)
            /\ synth.voices[i].stage = "Idle"
            /\ synth.voices[i].env = R0
            /\ FreeVoice(synth.voices) = i
            /\ synth.voices[j].stage # "Idle"
            /\ RGt(synth.voices[j].env, R0)

(***************************************************************************)
(* C23: as long as fewer than 2^32 note-ons have been processed, the       *)
(* voices that are not Idle have pairwise distinct ages, each at least 1   *)
(* and at most age_counter; therefore, when a note-on finds no Idle voice, *)
(* the least age is that of one voice only and the voice stolen is the one *)
(* whose note-on was processed least recently.                             *)
(***************************************************************************)
\* The count n of note-ons as the u32 it is below 2^16.
CountAsU32(n) == <<0, n>>
DistinctAges(s) ==
    \A i \in VoiceIdx :
        s.voices[i].stage # "Idle" =>
            /\ U32Le(CountAsU32(1), s.voices[i].age)
            /\ U32Le(s.voices[i].age, s.age_counter)
            /\ \A j \in VoiceIdx :
                    (j # i /\ s.voices[j].stage # "Idle") =>
                        s.voices[j].age # s.voices[i].age
\* Voice i of s is the one struck least recently, and the only one of the
\* least age.
LeastRecent(s, k, i) ==
    \A j \in VoiceIdx :
        j # i => /\ k.at[i] < k.at[j]
                 /\ U32Lt(s.voices[i].age, s.voices[j].age)

StolenIsLeastRecent ==
    /\ strikes.count < HALF
    /\ synth.age_counter = CountAsU32(strikes.count)
    /\ \A i \in VoiceIdx :
            synth.voices[i].stage # "Idle" =>
                synth.voices[i].age = CountAsU32(strikes.at[i])
    /\ DistinctAges(synth)
    /\ pc = "drain" =>
            \A event \in AssignedNotes :
                LET post == ApplyEvent(synth, event)
                IN  /\ DistinctAges(post)
                    /\ ~HasIdle(synth.voices) =>
                            /\ FreeVoice(synth.voices) = -1
                            /\ LeastRecent(synth, strikes,
                                           Assigned(synth, post))
    /\ (JustApplied /\ StatusNybble(LastEvent.status) = NOTE_ON
            /\ HasVelocity(LastEvent) /\ ~HasIdle(BeforeLast.voices)) =>
            \A j \in VoiceIdx :
                j # Assigned(BeforeLast, synth) =>
                    /\ strikes.at[j] < strikes.count
                    /\ U32Lt(BeforeLast.voices[Assigned(BeforeLast, synth)].age,
                             BeforeLast.voices[j].age)

\* A note-on has stolen a voice that is not the first one: the first voice
\* had been struck more recently than it.
StolenIsLeastRecentWitness ==
    /\ JustApplied
    /\ StatusNybble(LastEvent.status) = NOTE_ON
    /\ HasVelocity(LastEvent)
    /\ ~HasIdle(BeforeLast.voices)
    /\ Assigned(BeforeLast, synth) # 0
    /\ U32Lt(BeforeLast.voices[Assigned(BeforeLast, synth)].age,
             BeforeLast.voices[0].age)
    /\ strikes.at[Assigned(BeforeLast, synth)] = strikes.count

(***************************************************************************)
(* C24, as claimed: if a note-on and the note-off of the same note are     *)
(* drained in the same render call, the voice the note-on allocated enters *)
(* Release at level 0 with release increment 0, is Idle after the first    *)
(* rendered sample of the call and contributes nothing to any frame; it    *)
(* still takes a value of age_counter and, when no voice is Idle, still    *)
(* steals the oldest voice.                                                *)
(***************************************************************************)
\* The synth the last two applied events were applied to.
BeforeLastTwo == ApplyAll(synthAtStart, SubSeq(applied, 1, Len(applied) - 2))
\* The last two events of the running call are a note-on and the end of its
\* note.
ShortNote ==
    /\ pc \in {"drain", "frames"}
    /\ Len(applied) >= 2
    /\ StatusNybble(applied[Len(applied) - 1].status) = NOTE_ON
    /\ HasVelocity(applied[Len(applied) - 1])
    /\ EndsNote(LastEvent, applied[Len(applied) - 1].data1)
\* The voice the note-on of the short note allocated.
ShortVoice == Assigned(BeforeLastTwo, BeforeLast)
\* The note-on of the short note is counted and takes the oldest voice when
\* no voice is Idle.
ShortNoteAllocates ==
    /\ BeforeLast.age_counter = wrapping_add_1(BeforeLastTwo.age_counter)
    /\ BeforeLast.voices[ShortVoice].age = BeforeLast.age_counter
    /\ ~HasIdle(BeforeLastTwo.voices) =>
            ShortVoice = OldestVoice(BeforeLastTwo.voices)
    /\ HasIdle(BeforeLastTwo.voices) =>
            ShortVoice = FirstIdle(BeforeLastTwo.voices)

=============================================================================
